---- MODULE Spec2Model ----
(***************************************************************************)
(* Verification model of dequelabs/axe-linter-action.                      *)
(*                                                                         *)
(* lintFiles (src/src/linter.ts) is modelled as a state machine with one   *)
(* action per synchronous stretch of the async function: the code between  *)
(* two await points, or one outcome of a settled await.                    *)
(*                                                                         *)
(* JavaScript strings are sequences of text pieces, so that template       *)
(* literals are concatenations (\o) and '' is << >>.  File contents are    *)
(* sequences of single characters.                                         *)
(***************************************************************************)
EXTENDS Integers, Sequences, FiniteSets, TLC

\* ------------------------------------------------------------------ bounds
MaxFiles == 2
MaxErrors == 2

\* Most files in one response of the comparison call.
MaxChanged == 2

\* ------------------------------------------------------- input vocabulary
FileNames == {"a.js", "b.html"}

FileLists == UNION {[1..n -> FileNames] : n \in 0..MaxFiles}

ApiKeys == {"test-api-key"}

Urls == {"https://test-linter.com"}

NoConfig == << >>

RuleConfig == <<[rule |-> "test-rule", setting |-> "error"]>>

Configs == {NoConfig, RuleConfig}

\* Characters of the modelled file contents.
WhiteSpace == {" ", "\n"}

Contents == {<< >>, <<" ", "\n">>, <<" ", "x", "\n">>}

\* ------------------------------------------------------ thrown values
\* A thrown JavaScript value: an Error (instanceOfError) with a message, or
\* an arbitrary object with its own fields.
Err(name, message) ==
  [instanceOfError |-> TRUE, name |-> name, message |-> message,
   fields |-> << >>]

NonErrorObject ==
  [instanceOfError |-> FALSE, name |-> "Object", message |-> << >>,
   fields |-> <<"CustomError", "Something went wrong", "500">>]

NoValue == [instanceOfError |-> FALSE, name |-> "none", message |-> << >>,
            fields |-> << >>]

ReadFailures == {Err("Error", <<"ENOENT">>), NonErrorObject}

FetchFailures == {Err("FetchError", <<"Network Error">>), NonErrorObject}

JsonFailure == Err("FetchError", <<"invalid json response body">>)

WriteFailure == Err("Error", <<"Unable to find environment variable for $GITHUB_STEP_SUMMARY">>)

TypeError(prop) ==
  Err("TypeError", <<"Cannot read properties of undefined (reading '", prop, "')">>)

NotAFunction(what) == Err("TypeError", <<what, " is not a function">>)

\* ------------------------------------------------------ response bodies
\* LinterError of src/src/types.ts; helpURL << >> stands for an absent URL.
Finding1 ==
  [ruleId |-> "click-handler", lineNumber |-> 1, column |-> 1,
   endColumn |-> 10, description |-> "Test error 1",
   helpURL |-> <<"https://test-help-url-1.com">>]

Finding2 ==
  [ruleId |-> "color-contrast", lineNumber |-> 2, column |-> 3,
   endColumn |-> 15, description |-> "Test error 2", helpURL |-> << >>]

\* The findings a report lists: Finding1, Finding2, Finding1, ...
FindingAt(k) == IF k % 2 = 1 THEN Finding1 ELSE Finding2

FindingSeqs == {[k \in 1..n |-> FindingAt(k)] : n \in 0..MaxErrors}

\* A JSON value found at result.error: absent, or a string.
Absent == [t |-> "undefined", s |-> << >>]

JString(s) == [t |-> "string", s |-> s]

\* A JSON value found at result.report.errors: absent, a string of a given
\* length, or an array of findings.
NoErrors == [t |-> "undefined", len |-> 0, items |-> << >>]

ErrorsString(n) == [t |-> "string", len |-> n, items |-> << >>]

ErrorsArray(items) == [t |-> "array", len |-> Len(items), items |-> items]

\* A JSON value found at result.report: absent, a string, or an object.
NoReport == [t |-> "undefined", errors |-> NoErrors]

ReportString == [t |-> "string", errors |-> NoErrors]

ReportObject(errors) == [t |-> "object", errors |-> errors]

\* The text of a response body: valid JSON or not, and when valid the
\* parsed object's error and report properties.
Body(error, report) == [json |-> TRUE, error |-> error, report |-> report]

NotJson == [json |-> FALSE, error |-> Absent, report |-> NoReport]

ApiError == <<"API Error">>

\* { report: { errors: [...] } }
Report(items) == Body(Absent, ReportObject(ErrorsArray(items)))

\* { error: 'API Error' }
ErrorBody == Body(JString(ApiError), NoReport)

WellFormedReports == {Report(items) : items \in FindingSeqs}

WellFormedBodies == WellFormedReports \cup {ErrorBody}

MalformedBodies ==
  { Body(Absent, NoReport),
    Body(Absent, ReportString),
    Body(Absent, ReportObject(NoErrors)),
    Body(Absent, ReportObject(ErrorsString(0))),
    Body(Absent, ReportObject(ErrorsString(1))),
    Body(JString(<< >>), NoReport),
    Body(JString(<< >>), ReportObject(ErrorsArray(<< >>))),
    Body(JString(ApiError), ReportObject(ErrorsArray(<<Finding1>>))) }

Bodies == WellFormedBodies \cup MalformedBodies \cup {NotJson}

Statuses == {200, 201, 404, 500}

JsonType == <<"application/json">>

NoContentType == [present |-> FALSE, value |-> << >>]

ContentType(value) == [present |-> TRUE, value |-> value]

ContentTypes ==
  { NoContentType,
    ContentType(JsonType),
    ContentType(JsonType \o <<"; charset=utf-8">>),
    ContentType(<<"text/html">>) }

\* The responses the service is modelled to give: every body as JSON with
\* status 200, and every status and content type with a sample of bodies.
SampleBodies ==
  {Report(<<Finding1>>), ErrorBody, Body(Absent, ReportString), NotJson}

Responses ==
  [status : {200}, contentType : {ContentType(JsonType)}, body : Bodies]
  \cup [status : {200}, contentType : ContentTypes,
        body : {Report(<<Finding1>>)}]
  \cup [status : Statuses, contentType : {ContentType(JsonType)},
        body : SampleBodies]
  \cup [status : Statuses \ {200, 201},
        contentType : {ContentType(<<"text/html">>)}, body : {NotJson}]

NoResponse ==
  [status |-> 0, contentType |-> NoContentType, body |-> NotJson]

\* --------------------------------------------------------- pure helpers
RECURSIVE trimStart(_)
trimStart(s) ==
  IF s # << >> /\ Head(s) \in WhiteSpace THEN trimStart(Tail(s)) ELSE s

RECURSIVE trimEnd(_)
trimEnd(s) ==
  IF s # << >> /\ s[Len(s)] \in WhiteSpace
    THEN trimEnd(SubSeq(s, 1, Len(s) - 1))
    ELSE s

\* Mutant of trim: the contents are tested untrimmed.
trimIdentity(s) == s

\* String.prototype.trim
trim(s) == trimEnd(trimStart(s))

\* Mutant of ok: only server errors count as failures.
okBelow500(r) == r.status >= 200 /\ r.status < 500

\* response.ok of node-fetch: a status in the 2xx range.
ok(r) == r.status >= 200 /\ r.status < 300

\* contentType?.includes('application/json')
includes(contentType, piece) ==
  /\ contentType.present
  /\ \E k \in 1..Len(contentType.value) : contentType.value[k] = piece[1]

\* JavaScript truthiness of result.error.
truthy(v) == v.t = "string" /\ v.s # << >>

\* pluralize of './utils': '' for exactly one, 's' otherwise.
pluralize(n) == IF n = 1 THEN << >> ELSE <<"s">>

RECURSIVE escape(_)
escape(s) ==
  IF s = << >> THEN << >>
  ELSE <<IF Head(s) = "\n" THEN "\\n" ELSE Head(s)>> \o escape(Tail(s))

quote(s) == <<"\"">> \o escape(s) \o <<"\"">>

RECURSIVE stringifyRules(_)
stringifyRules(c) ==
  IF c = << >> THEN << >>
  ELSE quote(<<Head(c).rule>>) \o <<":">> \o quote(<<Head(c).setting>>)
       \o (IF Tail(c) = << >> THEN << >> ELSE <<",">>)
       \o stringifyRules(Tail(c))

\* JSON.stringify({ source, filename, config })
JSONstringify(b) ==
  <<"{\"source\":">> \o quote(b.source)
  \o <<",\"filename\":">> \o quote(<<b.filename>>)
  \o <<",\"config\":">> \o <<"{">> \o stringifyRules(b.config) \o <<"}">>
  \o <<"}">>

\* Mutant of Request: the trimmed contents are sent as the source.
RequestTrimmed(url, key, contents, file, config) ==
  [url |-> <<url, "/lint-source">>,
   method |-> "POST",
   contentType |-> JsonType,
   authorization |-> key,
   body |-> JSONstringify([source |-> trim(contents), filename |-> file,
                           config |-> config])]

\* The request fetch is called with (linter.ts 25-36).
Request(url, key, contents, file, config) ==
  [url |-> <<url, "/lint-source">>,
   method |-> "POST",
   contentType |-> JsonType,
   authorization |-> key,
   body |-> JSONstringify([source |-> contents, filename |-> file,
                           config |-> config])]

\* errors.map((error) => ({ line, column, endColumn, message, ruleId,
\* description })) of linter.ts 57-64.
ErrorDetail(error) ==
  [line |-> error.lineNumber,
   column |-> error.column,
   endColumn |-> error.endColumn,
   message |-> <<error.ruleId, " - ", error.description>>,
   ruleId |-> error.ruleId,
   description |-> error.description]

mapErrors(items) == [k \in 1..Len(items) |-> ErrorDetail(items[k])]

\* fileErrors[file] = details on a Record that keeps insertion order: an
\* existing key keeps its place and gets the new value.
assign(map, file, details) ==
  IF \E k \in 1..Len(map) : map[k].file = file
    THEN [k \in 1..Len(map) |->
            IF map[k].file = file
              THEN [file |-> file, errors |-> details]
              ELSE map[k]]
    ELSE Append(map, [file |-> file, errors |-> details])

\* Mutant of addErrors: the total is overwritten, not accumulated.
addErrorsOverwrite(total, errors) == errors.len

\* totalErrors += errors.length (linter.ts 55)
addErrors(total, errors) == total + errors.len

\* What lines 38-46 throw for a resolved response (NoValue: nothing).
checkResponse(r) ==
  IF ~ok(r)
    THEN Err("Error", <<"HTTP error! status: ", ToString(r.status)>>)
  ELSE IF ~includes(r.contentType, JsonType)
    THEN Err("Error", <<"Invalid content type">>)
  ELSE NoValue

\* Mutant of checkResult: the error property of the body is not looked at.
checkResultNoErrorCheck(b) ==
  IF ~b.json THEN JsonFailure
  ELSE IF b.report.t = "undefined" THEN TypeError("errors")
  ELSE IF b.report.errors.t = "undefined" THEN TypeError("length")
  ELSE IF b.report.errors.len > 0 /\ b.report.errors.t # "array"
    THEN NotAFunction("errors.map")
  ELSE NoValue

\* What lines 48-65 throw for the body of an accepted response.
checkResult(b) ==
  IF ~b.json THEN JsonFailure
  ELSE IF truthy(b.error) THEN Err("Error", b.error.s)
  ELSE IF b.report.t = "undefined" THEN TypeError("errors")
  ELSE IF b.report.errors.t = "undefined" THEN TypeError("length")
  ELSE IF b.report.errors.len > 0 /\ b.report.errors.t # "array"
    THEN NotAFunction("errors.map")
  ELSE NoValue

\* ------------------------------------------------------------- state
VARIABLES
  files, apiKey, axeLinterUrl, linterConfig, allowWarnings, \* the arguments
  pc,            \* where lintFiles is: loop, fetch, json, write, returned, failed
  idx,           \* 1-based position of `file` in files
  fileContents,  \* linter.ts 17
  response,      \* linter.ts 25
  totalErrors,   \* linter.ts 13
  fileErrors,    \* linter.ts 14
  reads,         \* calls of readFileSync: [idx, threw, contents]
  requests,      \* calls of fetch: [idx, file, request]
  replies,       \* responses the service delivered: [idx, response]
  debugLog,      \* calls of core.debug
  annotations,   \* calls of core.error / core.warning
  summary,       \* calls on core.summary
  returned,      \* the value lintFiles resolved with, -1 while it has not
  thrown,        \* the value lintFiles rejected with, NoValue while it has not
  raised,        \* the value the failing collaborator raised, if one did
  failedAt,      \* position of the file whose processing failed, 0 if none
  failedStep     \* which step failed: read, fetch, status, contentType, json,
                 \* error, shape, write

\* getChangedFiles (src/src/git.ts)
VARIABLES
  context,       \* github.context: payload and repo
  gitPc,         \* where getChangedFiles is: idle, start, listFiles,
                 \* compareCommits, done, failed
  octokitCalls,  \* calls of octokit.rest.pulls.listFiles / repos.compareCommits
  gitData,       \* response.data of the comparison call, once delivered
  changedFiles,  \* the sequence getChangedFiles resolved with
  gitThrown,     \* the value getChangedFiles rejected with
  gitRaised      \* the value the comparison call rejected with

git ==
  <<context, gitPc, octokitCalls, gitData, changedFiles, gitThrown, gitRaised>>

\* run (src/src/run.ts)
VARIABLES
  revision,      \* which of the two revisions of run in run.ts: 1 is lines
                 \* 7-59, 2 is lines 70-129
  getInput,      \* what core.getInput returns for each input name
  configFile,    \* axe-linter.yml on disk: absent, or its text
  runPc,         \* where run is: idle, start, getChangedFiles, loadConfig,
                 \* lintFiles, done
  getChangedFilesCalls, \* the tokens getChangedFiles was called with
  configReads,   \* how many times axe-linter.yml was read
  lintCalls,     \* the arguments of each call of lintFiles
  infoLog,       \* messages of core.info
  setFailedCalls \* messages of core.setFailed

runVars ==
  <<revision, getInput, configFile, runPc, getChangedFilesCalls, configReads,
    lintCalls, infoLog, setFailedCalls>>

vars ==
  <<files, apiKey, axeLinterUrl, linterConfig, allowWarnings, pc, idx,
    fileContents, response, totalErrors, fileErrors, reads, requests, replies,
    debugLog, annotations, summary, returned, thrown, raised, failedAt,
    failedStep, git, runVars>>

args == <<files, apiKey, axeLinterUrl, linterConfig, allowWarnings>>

outputs == <<debugLog, annotations, summary>>

\* github.context of the tests: the repo, and the payload of a pull request
\* or of a push.
NoPullRequest == [present |-> FALSE, number |-> 0]

PullRequest(number) == [present |-> TRUE, number |-> number]

Context(pull_request, before, after) ==
  [repo |-> [owner |-> "test-owner", repo |-> "test-repo"],
   payload |-> [pull_request |-> pull_request, before |-> before,
                after |-> after]]

Contexts ==
  { Context(PullRequest(123), "", ""),
    Context(PullRequest(7), "old-sha", "new-sha"),
    Context(NoPullRequest, "old-sha", "new-sha") }

\* response.data before the comparison call has resolved.
NoData ==
  [delivered |-> FALSE, present |-> FALSE, files |-> << >>, next |-> << >>]

\* getChangedFiles is not running.
GitIdle ==
  /\ context = Context(NoPullRequest, "", "")
  /\ gitPc = "idle"
  /\ octokitCalls = << >>
  /\ gitData = NoData
  /\ changedFiles = << >>
  /\ gitThrown = NoValue
  /\ gitRaised = NoValue

\* The values of the inputs github_token, api_key and axe_linter_url; '' is
\* an input that was not supplied.
Inputs(github_token, api_key, axe_linter_url) ==
  [github_token |-> github_token, api_key |-> api_key,
   axe_linter_url |-> axe_linter_url]

\* axe-linter.yml does not exist.
NoFile == [exists |-> FALSE, text |-> ""]

\* run is not running.
RunIdle ==
  /\ revision = 1
  /\ getInput = Inputs("", "", "")
  /\ configFile = NoFile
  /\ runPc = "idle"
  /\ getChangedFilesCalls = << >>
  /\ configReads = 0
  /\ lintCalls = << >>
  /\ infoLog = << >>
  /\ setFailedCalls = << >>

Init ==
  /\ GitIdle
  /\ RunIdle
  /\ files \in FileLists
  /\ apiKey \in ApiKeys
  /\ axeLinterUrl \in Urls
  /\ linterConfig \in Configs
  /\ allowWarnings \in BOOLEAN
  /\ pc = "loop"
  /\ idx = 1
  /\ fileContents = << >>
  /\ response = NoResponse
  /\ totalErrors = 0
  /\ fileErrors = << >>
  /\ reads = << >>
  /\ requests = << >>
  /\ replies = << >>
  /\ debugLog = << >>
  /\ annotations = << >>
  /\ summary = << >>
  /\ returned = -1
  /\ thrown = NoValue
  /\ raised = NoValue
  /\ failedAt = 0
  /\ failedStep = "none"

\* Mutant of Throw: the value is caught and wrapped in a new Error.
ThrowWrapped(value, step) ==
  /\ pc' = "failed"
  /\ thrown' = Err("Error",
                   <<"Error processing ", files[idx], ": ">> \o value.message)
  /\ failedAt' = idx
  /\ failedStep' = step

\* throw value, out of the for loop and out of lintFiles: nothing catches.
Throw(value, step) ==
  /\ pc' = "failed"
  /\ thrown' = value
  /\ failedAt' = idx
  /\ failedStep' = step

NoThrow == UNCHANGED <<thrown, raised, failedAt, failedStep>>

\* Mutant of ReadFails: the failure is recorded and the loop goes on.
ReadFailsContinues ==
  /\ pc = "loop" /\ idx <= Len(files)
  /\ \E e \in ReadFailures :
       /\ raised' = e
       /\ thrown' = e
  /\ failedAt' = idx
  /\ failedStep' = "read"
  /\ reads' = Append(reads, [idx |-> idx, threw |-> TRUE, contents |-> << >>])
  /\ idx' = idx + 1
  /\ UNCHANGED <<runVars, git, args, pc, fileContents, response, totalErrors, fileErrors,
                 requests, replies, outputs, returned>>

\* The read failure answered with the total collected so far.
ReadFailsReturnsTotal ==
  /\ pc = "loop" /\ idx <= Len(files)
  /\ \E e \in ReadFailures :
       /\ raised' = e
       /\ Throw(e, "read")
  /\ reads' = Append(reads, [idx |-> idx, threw |-> TRUE, contents |-> << >>])
  /\ returned' = totalErrors
  /\ UNCHANGED <<runVars, git, args, idx, fileContents, response, totalErrors,
                 fileErrors, requests, replies, outputs>>

\* linter.ts 17: readFileSync throws.
ReadFails ==
  /\ pc = "loop" /\ idx <= Len(files)
  /\ \E e \in ReadFailures :
       /\ raised' = e
       /\ Throw(e, "read")
  /\ reads' = Append(reads, [idx |-> idx, threw |-> TRUE, contents |-> << >>])
  /\ UNCHANGED <<runVars, git, args, idx, fileContents, response, totalErrors, fileErrors,
                 requests, replies, outputs, returned>>

\* The empty file is skipped without moving on to the next one.
SkipEmptyFileStays ==
  /\ pc = "loop" /\ idx <= Len(files)
  /\ \E c \in Contents :
       /\ trim(c) = << >>
       /\ fileContents' = c
       /\ reads' = Append(reads, [idx |-> idx, threw |-> FALSE, contents |-> c])
  /\ debugLog' = Append(debugLog, <<"Skipping empty file ", files[idx]>>)
  /\ NoThrow
  /\ UNCHANGED <<runVars, git, args, idx, pc, response, totalErrors, fileErrors,
                 requests, replies, annotations, summary, returned>>

\* linter.ts 17-23: the file is read and its trimmed contents are empty.
SkipEmptyFile ==
  /\ pc = "loop" /\ idx <= Len(files)
  /\ \E c \in Contents :
       /\ trim(c) = << >>
       /\ fileContents' = c
       /\ reads' = Append(reads, [idx |-> idx, threw |-> FALSE, contents |-> c])
  /\ debugLog' = Append(debugLog, <<"Skipping empty file ", files[idx]>>)
  /\ idx' = idx + 1
  /\ NoThrow
  /\ UNCHANGED <<runVars, git, args, pc, response, totalErrors, fileErrors, requests,
                 replies, annotations, summary, returned>>

\* linter.ts 17-36: the file is read, is not empty, and fetch is called.
PostFile ==
  /\ pc = "loop" /\ idx <= Len(files)
  /\ \E c \in Contents :
       /\ trim(c) # << >>
       /\ fileContents' = c
       /\ requests' =
            Append(requests,
                   [idx |-> idx, file |-> files[idx],
                    request |-> Request(axeLinterUrl, apiKey, c, files[idx],
                                        linterConfig)])
       /\ reads' = Append(reads, [idx |-> idx, threw |-> FALSE, contents |-> c])
  /\ pc' = "fetch"
  /\ NoThrow
  /\ UNCHANGED <<runVars, git, args, idx, response, totalErrors, fileErrors, replies,
                 outputs, returned>>

\* Mutant of FetchRejects: a rejected request is sent once more.
FetchRejectsRetries ==
  /\ pc = "fetch"
  /\ LET sent(q) == q.idx = idx
     IN  IF Cardinality({k \in 1..Len(requests) : sent(requests[k])}) < 2
           THEN /\ requests' = Append(requests, requests[Len(requests)])
                /\ NoThrow
                /\ UNCHANGED pc
           ELSE /\ \E e \in FetchFailures :
                     /\ raised' = e
                     /\ Throw(e, "fetch")
                /\ UNCHANGED requests
  /\ UNCHANGED <<runVars, git, args, idx, fileContents, response, totalErrors, fileErrors,
                 reads, replies, outputs, returned>>

\* linter.ts 25: the promise of fetch rejects.
FetchRejects ==
  /\ pc = "fetch"
  /\ \E e \in FetchFailures :
       /\ raised' = e
       /\ Throw(e, "fetch")
  /\ UNCHANGED <<runVars, git, args, idx, fileContents, response, totalErrors, fileErrors,
                 reads, requests, replies, outputs, returned>>

\* linter.ts 25, 38-48: fetch resolves; status and content type are checked
\* and response.json() is called.
FetchResolves ==
  /\ pc = "fetch"
  /\ \E r \in Responses :
       /\ response' = r
       /\ replies' = Append(replies, [idx |-> idx, response |-> r])
       /\ IF checkResponse(r) # NoValue
            THEN /\ Throw(checkResponse(r),
                          IF ok(r) THEN "contentType" ELSE "status")
                 /\ UNCHANGED raised
            ELSE /\ pc' = "json"
                 /\ NoThrow
  /\ UNCHANGED <<runVars, git, args, idx, fileContents, totalErrors, fileErrors, reads,
                 requests, outputs, returned>>

\* linter.ts 48-66: response.json() settles and the result is taken in.
JsonSettles ==
  /\ pc = "json"
  /\ LET b == response.body
         errors == b.report.errors
         counted == b.json /\ ~truthy(b.error) /\ b.report.t # "undefined"
                    /\ errors.t # "undefined"
     IN  /\ totalErrors' = IF counted THEN addErrors(totalErrors, errors)
                                      ELSE totalErrors
         /\ IF checkResult(b) # NoValue
              THEN /\ Throw(checkResult(b),
                            IF ~b.json THEN "json"
                            ELSE IF truthy(b.error) THEN "error" ELSE "shape")
                   /\ raised' = IF b.json THEN raised ELSE JsonFailure
                   /\ UNCHANGED <<idx, fileErrors>>
              ELSE /\ fileErrors' =
                        IF errors.len > 0
                          THEN assign(fileErrors, files[idx],
                                      mapErrors(errors.items))
                          ELSE fileErrors
                   /\ idx' = idx + 1
                   /\ pc' = "loop"
                   /\ NoThrow
  /\ UNCHANGED <<runVars, git, args, fileContents, response, reads, requests, replies,
                 outputs, returned>>

\* ------------------------------------------------------ rendering
\* Calls on core.summary; level 0 is addHeading without a level.
addHeading(text, level) ==
  [op |-> "addHeading", text |-> text, level |-> level, items |-> << >>]

addBreak == [op |-> "addBreak", text |-> << >>, level |-> 0, items |-> << >>]

addList(items) ==
  [op |-> "addList", text |-> << >>, level |-> 0, items |-> items]

addRaw(text) == [op |-> "addRaw", text |-> text, level |-> 0, items |-> << >>]

write == [op |-> "write", text |-> << >>, level |-> 0, items |-> << >>]

\* linter.ts 74-82: the summary section of one entry of fileErrors.
Section(entry) ==
  << addHeading(<<"Errors in ", entry.file, ":">>, 3),
     addList([k \in 1..Len(entry.errors) |->
                <<"Line ", ToString(entry.errors[k].line), ": ",
                  entry.errors[k].ruleId, " - ",
                  entry.errors[k].description>>]),
     addBreak >>

\* linter.ts 86-92: the annotation of one error of one file.
Annotation(file, error) ==
  [severity |-> "error",
   message |-> <<error.ruleId, " - ", error.description>>,
   file |-> file,
   startLine |-> error.line,
   startColumn |-> error.column,
   endColumn |-> error.endColumn,
   title |-> "Axe Linter"]

\* linter.ts 85-93
AnnotationsOf(entry) ==
  [k \in 1..Len(entry.errors) |-> Annotation(entry.file, entry.errors[k])]

\* linter.ts 71-95, the summary calls of the loop over Object.entries.
RECURSIVE Sections(_)
Sections(map) ==
  IF map = << >> THEN << >>
  ELSE (IF Len(Head(map).errors) > 0 THEN Section(Head(map)) ELSE << >>)
       \o Sections(Tail(map))

\* linter.ts 71-95, the annotation calls of the loop over Object.entries.
RECURSIVE AllAnnotations(_)
AllAnnotations(map) ==
  IF map = << >> THEN << >>
  ELSE (IF Len(Head(map).errors) > 0 THEN AnnotationsOf(Head(map)) ELSE << >>)
       \o AllAnnotations(Tail(map))

\* The summary written before its sections and closing line are appended.
RenderSummaryWriteFirst ==
  /\ pc = "loop" /\ idx > Len(files)
  /\ summary' =
       summary
       \o <<addHeading(<<"Accessibility Linting Results">>, 0), addBreak,
            write>>
       \o Sections(fileErrors)
       \o <<addBreak,
            addRaw(<<"Found ", ToString(totalErrors), " accessibility issue">>
                   \o pluralize(totalErrors))>>
  /\ annotations' = annotations \o AllAnnotations(fileErrors)
  /\ pc' = "write"
  /\ NoThrow
  /\ UNCHANGED <<runVars, git, args, idx, fileContents, response, totalErrors,
                 fileErrors, reads, requests, replies, debugLog, returned>>

\* linter.ts 68-101: after the loop the summary is built, the annotations
\* are emitted and summary.write() is called.
RenderSummary ==
  /\ pc = "loop" /\ idx > Len(files)
  /\ summary' =
       summary
       \o <<addHeading(<<"Accessibility Linting Results">>, 0), addBreak>>
       \o Sections(fileErrors)
       \o <<addBreak,
            addRaw(<<"Found ", ToString(totalErrors), " accessibility issue">>
                   \o pluralize(totalErrors)),
            write>>
  /\ annotations' = annotations \o AllAnnotations(fileErrors)
  /\ pc' = "write"
  /\ NoThrow
  /\ UNCHANGED <<runVars, git, args, idx, fileContents, response, totalErrors, fileErrors,
                 reads, requests, replies, debugLog, returned>>

\* Mutant of WriteResolves: the debug line always says 'errors'.
WriteResolvesAlwaysPlural ==
  /\ pc = "write"
  /\ debugLog' =
       Append(debugLog, <<"Found ", ToString(totalErrors), " error", "s">>)
  /\ returned' = totalErrors
  /\ pc' = "returned"
  /\ NoThrow
  /\ UNCHANGED <<runVars, git, args, idx, fileContents, response, totalErrors, fileErrors,
                 reads, requests, replies, annotations, summary>>

\* linter.ts 98-104: the write completes, the count is logged and returned.
WriteResolves ==
  /\ pc = "write"
  /\ debugLog' =
       Append(debugLog,
              <<"Found ", ToString(totalErrors), " error">>
              \o pluralize(totalErrors))
  /\ returned' = totalErrors
  /\ pc' = "returned"
  /\ NoThrow
  /\ UNCHANGED <<runVars, git, args, idx, fileContents, response, totalErrors, fileErrors,
                 reads, requests, replies, annotations, summary>>

\* linter.ts 98-101: summary.write() rejects.
WriteRejects ==
  /\ pc = "write"
  /\ raised' = WriteFailure
  /\ Throw(WriteFailure, "write")
  /\ UNCHANGED <<runVars, git, args, idx, fileContents, response, totalErrors, fileErrors,
                 reads, requests, replies, outputs, returned>>

\* run.ts 117-121: the message run marks the run failed with.
failedMessage(errorCount) ==
  <<"Found ", ToString(errorCount), " accessibility issue">>
  \o pluralize(errorCount)

Next ==
  \/ ReadFails
  \/ SkipEmptyFile
  \/ PostFile
  \/ FetchRejects
  \/ FetchResolves
  \/ JsonSettles
  \/ RenderSummary
  \/ WriteResolves
  \/ WriteRejects

Spec == Init /\ [][Next]_vars

\* lintFiles with every started step completing: a read returns or throws,
\* a request resolves or rejects, a continuation of the function runs.
FairSpec == Spec /\ WF_vars(Next)

\* ======================================================= getChangedFiles
\* A path is a sequence of tokens: names, "/" between directory segments and
\* "." inside a segment, so 'src/App.JS' is <<"src", "/", "App", ".", "JS">>.
\* The modelled paths have no segment that starts with a dot.
Paths ==
  { <<"test", ".", "js">>,
    <<"test", ".", "jsx">>,
    <<"test", ".", "tsx">>,
    <<"test", ".", "md">>,
    <<"helper", ".", "esm">>,
    <<"about", ".", "htm">>,
    <<"guide", ".", "markdown">>,
    <<"test", ".", "JSX">>,
    <<"src", "/", "App", ".", "JS">>,
    <<"docs", "/", "README", ".", "MD">>,
    <<"docs", "/", "test", ".", "MaRkDoWn">>,
    <<"a", "/", "b", "/", "c", "/", "d", "/", "e", "/", "f", "/", "page",
      ".", "html">>,
    <<"deep", "/", "path", "/", "app", ".", "vue">>,
    <<"test", ".", "css">>,
    <<"test", ".", "py">>,
    <<"src", "/", "types", ".", "ts">>,
    <<"README">>,
    <<"docs", "/", "markdown">>,
    <<"test", ".">> }

FileStatuses == {"added", "modified", "renamed", "changed", "removed"}

ChangedFile(filename, status) == [filename |-> filename, status |-> status]

\* The files of a response: every path as a modified file, and a few paths
\* under every status.
ChangedFileEntries ==
  {ChangedFile(p, "modified") : p \in Paths}
    \cup {ChangedFile(p, s) :
            p \in {<<"test", ".", "js">>, <<"test", ".", "css">>},
            s \in FileStatuses}

ChangedFileLists ==
  UNION {[1..n -> ChangedFileEntries] : n \in 0..MaxChanged}

\* response.data of pulls.listFiles is the array; of repos.compareCommits an
\* object whose files field may be undefined.
\* The files the server keeps for the pages after the first: the call passes
\* no per_page, so where the first page ends is the server's choice.
LaterPages ==
  { << >>,
    <<ChangedFile(<<"test", ".", "md">>, "modified")>>,
    <<ChangedFile(<<"test", ".", "css">>, "added")>> }

ListFilesData ==
  {[delivered |-> TRUE, present |-> TRUE, files |-> l, next |-> n] :
     l \in ChangedFileLists, n \in LaterPages}

CompareCommitsData ==
  ListFilesData
    \cup {[delivered |-> TRUE, present |-> FALSE, files |-> << >>,
            next |-> << >>]}

GitFailures == {Err("Error", <<"API Error">>), Err("HttpError", <<"Not Found">>)}

FILE_PATTERNS ==
  << <<"**", "/", "*", ".", "js">>,
     <<"**", "/", "*", ".", "jsx">>,
     <<"**", "/", "*", ".", "tsx">>,
     <<"**", "/", "*", ".", "esm">>,
     <<"**", "/", "*", ".", "html">>,
     <<"**", "/", "*", ".", "htm">>,
     <<"**", "/", "*", ".", "vue">>,
     <<"**", "/", "*", ".", "md">>,
     <<"**", "/", "*", ".", "markdown">> >>

\* The last path segment: the tokens after the last "/".
basename(filename) ==
  LET slashes == {k \in 1..Len(filename) : filename[k] = "/"}
      last == IF slashes = {} THEN 0
              ELSE CHOOSE k \in slashes : \A j \in slashes : j <= k
  IN  SubSeq(filename, last + 1, Len(filename))

\* Without the dot option neither ** nor * matches a segment that starts
\* with a dot.
noDotSegment(filename) ==
  \A k \in 1..Len(filename) :
    (k = 1 \/ filename[k - 1] = "/") => filename[k] # "."

\* A match that only looks at how the name ends.
minimatchEndsWith(filename, pattern) ==
  filename[Len(filename)] = pattern[5]

\* minimatch(filename, '**/*.ext') with the default options: any directory
\* depth, then a segment that ends in '.ext', compared case-sensitively.
minimatch(filename, pattern) ==
  LET base == basename(filename)
  IN  /\ noDotSegment(filename)
      /\ Len(base) >= 3
      /\ base[Len(base) - 1] = pattern[4]
      /\ base[Len(base)] = pattern[5]

matchesPattern(file) ==
  \E p \in 1..Len(FILE_PATTERNS) : minimatch(file.filename, FILE_PATTERNS[p])

filenames(list) == [k \in 1..Len(list) |-> list[k].filename]

\* The retained names, last first.
filterFilesReversed(list) ==
  LET kept == filenames(SelectSeq(list, matchesPattern))
  IN  [k \in 1..Len(kept) |-> kept[Len(kept) + 1 - k]]

\* .filter(file => FILE_PATTERNS.some(...)).map(file => file.filename)
filterFiles(list) == filenames(SelectSeq(list, matchesPattern))

\* lintFiles is not running.
LintIdle ==
  /\ files = << >>
  /\ apiKey = "test-api-key"
  /\ axeLinterUrl = "https://test-linter.com"
  /\ linterConfig = NoConfig
  /\ allowWarnings = FALSE
  /\ pc = "idle"
  /\ idx = 1
  /\ fileContents = << >>
  /\ response = NoResponse
  /\ totalErrors = 0
  /\ fileErrors = << >>
  /\ reads = << >>
  /\ requests = << >>
  /\ replies = << >>
  /\ annotations = << >>
  /\ summary = << >>
  /\ returned = -1
  /\ thrown = NoValue
  /\ raised = NoValue
  /\ failedAt = 0
  /\ failedStep = "none"

lint ==
  <<files, apiKey, axeLinterUrl, linterConfig, allowWarnings, pc, idx,
    fileContents, response, totalErrors, fileErrors, reads, requests, replies,
    annotations, summary, returned, thrown, raised, failedAt, failedStep>>

GitInit ==
  /\ LintIdle
  /\ RunIdle
  /\ debugLog = << >>
  /\ context \in Contexts
  /\ gitPc = "start"
  /\ octokitCalls = << >>
  /\ gitData = NoData
  /\ changedFiles = << >>
  /\ gitThrown = NoValue
  /\ gitRaised = NoValue

\* The parameters of a call; per_page and page are not among them.
OctokitCall(api, pull_number, base, head) ==
  [api |-> api, owner |-> context.repo.owner, repo |-> context.repo.repo,
   pull_number |-> pull_number, base |-> base, head |-> head,
   per_page |-> "undefined", page |-> "undefined"]

\* The push branch taken whatever the payload holds.
CallCompareCommitsAlways ==
  /\ gitPc = "start"
  /\ debugLog' = Append(debugLog, <<"Not a pull request, checking push diff">>)
  /\ octokitCalls' =
       Append(octokitCalls,
              OctokitCall("repos.compareCommits", 0, context.payload.before,
                          context.payload.after))
  /\ gitPc' = "compareCommits"
  /\ UNCHANGED <<runVars, lint, context, gitData, changedFiles, gitThrown, gitRaised>>

\* Lines 21-31: no pull request in the payload, so the push diff is asked
\* for, between payload.before and payload.after.
CallCompareCommits ==
  /\ gitPc = "start"
  /\ ~context.payload.pull_request.present
  /\ debugLog' = Append(debugLog, <<"Not a pull request, checking push diff">>)
  /\ octokitCalls' =
       Append(octokitCalls,
              OctokitCall("repos.compareCommits", 0, context.payload.before,
                          context.payload.after))
  /\ gitPc' = "compareCommits"
  /\ UNCHANGED <<runVars, lint, context, gitData, changedFiles, gitThrown, gitRaised>>

\* Lines 42-46: the files of the pull request are asked for.
CallListFiles ==
  /\ gitPc = "start"
  /\ context.payload.pull_request.present
  /\ octokitCalls' =
       Append(octokitCalls,
              OctokitCall("pulls.listFiles",
                          context.payload.pull_request.number, "", ""))
  /\ gitPc' = "listFiles"
  /\ UNCHANGED <<runVars, lint, debugLog, context, gitData, changedFiles, gitThrown,
                 gitRaised>>

\* files.filter called on the field as it came, undefined included.
CompareCommitsResolvesNoOptional ==
  /\ gitPc = "compareCommits"
  /\ \E data \in CompareCommitsData :
       /\ gitData' = data
       /\ IF data.present
            THEN /\ changedFiles' = filterFiles(data.files)
                 /\ gitPc' = "done"
                 /\ UNCHANGED gitThrown
            ELSE /\ gitThrown' = TypeError("filter")
                 /\ gitPc' = "failed"
                 /\ UNCHANGED changedFiles
  /\ UNCHANGED <<runVars, lint, debugLog, context, octokitCalls, gitRaised>>

\* Lines 33-39: response.data.files?.filter(...).map(...) || []
CompareCommitsResolves ==
  /\ gitPc = "compareCommits"
  /\ \E data \in CompareCommitsData :
       /\ gitData' = data
       /\ changedFiles' = IF data.present THEN filterFiles(data.files)
                                          ELSE << >>
  /\ gitPc' = "done"
  /\ UNCHANGED <<runVars, lint, debugLog, context, octokitCalls, gitThrown, gitRaised>>

\* Lines 26-31: the awaited call rejects and nothing catches it.
CompareCommitsRejects ==
  /\ gitPc = "compareCommits"
  /\ \E e \in GitFailures :
       /\ gitRaised' = e
       /\ gitThrown' = e
  /\ gitPc' = "failed"
  /\ UNCHANGED <<runVars, lint, debugLog, context, octokitCalls, gitData, changedFiles>>

\* Lines 48-52: response.data.filter(...).map(...)
ListFilesResolves ==
  /\ gitPc = "listFiles"
  /\ \E data \in ListFilesData :
       /\ gitData' = data
       /\ changedFiles' = filterFiles(data.files)
  /\ gitPc' = "done"
  /\ UNCHANGED <<runVars, lint, debugLog, context, octokitCalls, gitThrown, gitRaised>>

\* A failure answered with an empty list.
ListFilesRejectsSwallowed ==
  /\ gitPc = "listFiles"
  /\ \E e \in GitFailures : gitRaised' = e
  /\ changedFiles' = << >>
  /\ gitPc' = "done"
  /\ UNCHANGED <<runVars, lint, debugLog, context, octokitCalls, gitData, gitThrown>>

\* Lines 42-46: the awaited call rejects and nothing catches it.
ListFilesRejects ==
  /\ gitPc = "listFiles"
  /\ \E e \in GitFailures :
       /\ gitRaised' = e
       /\ gitThrown' = e
  /\ gitPc' = "failed"
  /\ UNCHANGED <<runVars, lint, debugLog, context, octokitCalls, gitData, changedFiles>>

GitNext ==
  \/ CallCompareCommits
  \/ CallListFiles
  \/ CompareCommitsResolves
  \/ CompareCommitsRejects
  \/ ListFilesResolves
  \/ ListFilesRejects

SpecGit == GitInit /\ [][GitNext]_vars

\* ================================================================ claims
\* Vocabulary of the properties, stated without the operators of the model.

\* A file's contents are empty or whitespace-only.
IsBlank(c) == \A k \in 1..Len(c) : c[k] \in {" ", "\n"}

Is2xx(r) == r.status \in 200..299

IsJsonType(r) ==
  r.contentType.present
  /\ "application/json" \in {r.contentType.value[k] :
                               k \in 1..Len(r.contentType.value)}

\* { error: <message> } with a message.
IsErrorShape(b) ==
  b.json /\ b.error.t = "string" /\ b.error.s # << >>
  /\ b.report.t = "undefined"

\* { report: { errors: [findings] } }
IsReportShape(b) ==
  b.json /\ b.error.t = "undefined" /\ b.report.t = "object"
  /\ b.report.errors.t = "array"

IsSuccess(r) == Is2xx(r) /\ IsJsonType(r) /\ IsReportShape(r.body)

\* Number of positions of a sequence that satisfy a test.
CountIn(seq, Test(_)) == Cardinality({k \in 1..Len(seq) : Test(seq[k])})

\* Sum of the lengths of the error arrays of the first n replies.
RECURSIVE SumReported(_)
SumReported(n) ==
  IF n = 0 THEN 0
  ELSE SumReported(n - 1) + Len(replies[n].response.body.report.errors.items)

\* Sum of the length properties lintFiles read from the first n replies.
RECURSIVE SumCounted(_)
SumCounted(n) ==
  IF n = 0 THEN 0
  ELSE SumCounted(n - 1) + replies[n].response.body.report.errors.len

\* The k-th reply has been taken in by lintFiles.
Processed(k) == k < Len(replies) \/ pc # "json"

\* ---------------------------------------------------------------- C1
\* C1: lintFiles is fail-fast. Files are read in list order, and once the
\* processing of the file at position failedAt has failed (its read, its
\* POST or the validation of its response), lintFiles has rejected, no file
\* at a later position has been read or posted, and after a failed read no
\* request was sent for the failing file either.
C1_FailFast ==
  /\ \A k \in 1..Len(reads) : reads[k].idx = k
  /\ \A k \in 1..Len(requests) :
       \E j \in 1..Len(reads) :
         reads[j].idx = requests[k].idx /\ ~reads[j].threw
  /\ failedAt # 0 =>
       /\ pc = "failed"
       /\ \A k \in 1..Len(reads) : reads[k].idx <= failedAt
       /\ \A k \in 1..Len(requests) : requests[k].idx <= failedAt
       /\ failedStep = "read" =>
            \A k \in 1..Len(requests) : requests[k].idx # failedAt

C1_Witness ==
  /\ pc = "failed" /\ failedStep = "read"
  /\ failedAt = 2 /\ Len(files) > 1
  /\ Len(requests) = 1

\* ---------------------------------------------------------------- C2
\* C2: every file read with empty or whitespace-only contents triggers no
\* request, is logged exactly once as 'Skipping empty file <name>', adds
\* nothing to the total, and the loop goes on to the next position.
C2_SkipsEmptyFiles ==
  /\ \A k \in 1..Len(reads) :
       (~reads[k].threw /\ IsBlank(reads[k].contents)) =>
         /\ \A q \in 1..Len(requests) : requests[q].idx # reads[k].idx
         /\ \A q \in 1..Len(replies) : replies[q].idx # reads[k].idx
         /\ idx > reads[k].idx
  /\ \A f \in FileNames :
       LET skipped(r) == ~r.threw /\ IsBlank(r.contents) /\ files[r.idx] = f
           logged(m) == m = <<"Skipping empty file ", f>>
       IN  CountIn(debugLog, logged) = CountIn(reads, skipped)
  /\ returned # -1 =>
       LET posted(r) == ~r.threw /\ ~IsBlank(r.contents)
       IN  /\ Len(replies) = CountIn(reads, posted)
           /\ returned = SumCounted(Len(replies))

C2_Witness ==
  /\ pc = "returned"
  /\ Len(files) = 2
  /\ reads[1].contents = <<" ", "\n">>
  /\ ~IsBlank(reads[2].contents)
  /\ returned > 0

\* ---------------------------------------------------------------- C3
\* C3: when every posted file got a well-formed success response, the value
\* lintFiles returns is the sum of the lengths of the errors arrays of those
\* responses, one response per non-skipped file.
C3_TotalIsSum ==
  (pc = "returned" /\ \A k \in 1..Len(replies) : IsSuccess(replies[k].response))
    => /\ returned = SumReported(Len(replies))
       /\ LET posted(r) == ~IsBlank(r.contents)
          IN  Len(replies) = CountIn(reads, posted)

C3_Witness ==
  /\ pc = "returned"
  /\ Len(replies) = 2
  /\ \A k \in 1..Len(replies) : IsSuccess(replies[k].response)
  /\ Len(replies[1].response.body.report.errors.items) = 1
  /\ Len(replies[2].response.body.report.errors.items) = 2
  /\ returned = 3

\* ---------------------------------------------------------------- C4
\* C4: after a run in which every response was a well-formed success, there
\* is one annotation per reported finding: with allowWarnings false the
\* error-severity annotations number the returned total and there is no
\* warning; with allowWarnings true there is no error-severity annotation
\* and the warnings number the returned total.
C4_AnnotationSeverity ==
  (pc = "returned" /\ \A k \in 1..Len(replies) : IsSuccess(replies[k].response))
    => LET isError(a) == a.severity = "error"
           isWarning(a) == a.severity = "warning"
       IN  IF allowWarnings
             THEN /\ CountIn(annotations, isError) = 0
                  /\ CountIn(annotations, isWarning) = returned
             ELSE /\ CountIn(annotations, isError) = returned
                  /\ CountIn(annotations, isWarning) = 0

\* ---------------------------------------------------------------- C5
\* C5: every annotation comes from one finding of the response of the file
\* it targets: its line and columns are the finding's, its title is
\* 'Axe Linter' and its message is '<filename>:<line> - <ruleId> -
\* <description>', followed by a newline and the help URL when there is one.
AnnotationMessage(file, finding) ==
  <<file, ":", ToString(finding.lineNumber), " - ", finding.ruleId, " - ",
    finding.description>>
  \o (IF finding.helpURL # << >> THEN <<"\n">> \o finding.helpURL ELSE << >>)

C5_AnnotationFields ==
  \A a \in 1..Len(annotations) :
    \E k \in 1..Len(replies) :
      \E j \in 1..Len(replies[k].response.body.report.errors.items) :
        LET finding == replies[k].response.body.report.errors.items[j]
            file == files[replies[k].idx]
        IN  /\ annotations[a].file = file
            /\ annotations[a].startLine = finding.lineNumber
            /\ annotations[a].startColumn = finding.column
            /\ annotations[a].endColumn = finding.endColumn
            /\ annotations[a].title = "Axe Linter"
            /\ annotations[a].message = AnnotationMessage(file, finding)

\* ---------------------------------------------------------------- C6
\* C6: once lintFiles has taken in a 2xx JSON response whose parsed body has
\* an error message, it has rejected with an Error whose message is exactly
\* that message, at that file, and no later file has been read.
HasErrorMessage(r) ==
  Is2xx(r) /\ IsJsonType(r) /\ r.body.json
  /\ r.body.error.t = "string" /\ r.body.error.s # << >>

C7_HttpStatusIsFatal ==
  \A k \in 1..Len(replies) :
    ~Is2xx(replies[k].response) =>
      /\ pc = "failed"
      /\ thrown.instanceOfError
      /\ failedAt = replies[k].idx
      /\ k = Len(replies)
      /\ totalErrors = SumCounted(k - 1)
      /\ returned = -1
      /\ annotations = << >>
      /\ \A j \in 1..Len(reads) : reads[j].idx <= replies[k].idx
      /\ \A j \in 1..Len(requests) : requests[j].idx <= replies[k].idx

C7_Witness ==
  /\ pc = "failed" /\ failedStep = "status"
  /\ failedAt = 1 /\ Len(files) = 2
  /\ response.status = 404
  /\ IsJsonType(response) /\ IsReportShape(response.body)
  /\ Len(response.body.report.errors.items) = 1

\* ---------------------------------------------------------------- C8
\* C8: a 2xx response that is neither an error body with a message nor a
\* report with a sequence of findings is never taken for a success: once
\* lintFiles has taken it in, lintFiles has rejected at that file.
IsValidShape(r) ==
  IsJsonType(r) /\ (IsErrorShape(r.body) \/ IsReportShape(r.body))

C8_MalformedNeverSucceeds ==
  \A k \in 1..Len(replies) :
    (Is2xx(replies[k].response) /\ ~IsValidShape(replies[k].response)
     /\ Processed(k))
      => /\ pc = "failed"
         /\ failedAt = replies[k].idx
         /\ returned = -1

C10_ErrorNamesFile ==
  /\ (failedStep = "read" /\ raised.instanceOfError) =>
       /\ thrown.instanceOfError
       /\ thrown.message =
            <<"Error processing ", files[failedAt], ": ">> \o raised.message
  /\ failedStep = "error" =>
       /\ thrown.instanceOfError
       /\ thrown.message =
            <<"Error processing ", files[failedAt], ": ">>
            \o response.body.error.s

\* ---------------------------------------------------------------- C11
\* C11: every request is a POST to '<baseUrl>/lint-source' with the apiKey
\* as Authorization and Content-Type application/json; its body carries the
\* file's contents as read (untrimmed) as source, the file's path as
\* filename, and the serialization of the configuration passed to
\* lintFiles as config, the same in every request of the run.
IndexOf(seq, piece) ==
  CHOOSE k \in 1..Len(seq) :
    seq[k] = piece /\ \A j \in 1..(k - 1) : seq[j] # piece

\* The JSON text of a string of single characters.
JsonText(c) ==
  <<"\"">> \o [k \in 1..Len(c) |-> IF c[k] = "\n" THEN "\\n" ELSE c[k]]
  \o <<"\"">>

\* JSON.stringify of the two configurations of the tests.
ConfigJson(c) ==
  IF c = << >>
    THEN <<"{", "}">>
    ELSE <<"{", "\"", "test-rule", "\"", ":", "\"", "error", "\"", "}">>

SourceField(body) ==
  SubSeq(body, IndexOf(body, "{\"source\":") + 1,
         IndexOf(body, ",\"filename\":") - 1)

FilenameField(body) ==
  SubSeq(body, IndexOf(body, ",\"filename\":") + 1,
         IndexOf(body, ",\"config\":") - 1)

ConfigField(body) ==
  SubSeq(body, IndexOf(body, ",\"config\":") + 1, Len(body) - 1)

C11_RequestContents ==
  \A k \in 1..Len(requests) :
    LET q == requests[k].request
        read == reads[requests[k].idx]
    IN  /\ q.method = "POST"
        /\ q.url = <<axeLinterUrl, "/lint-source">>
        /\ q.authorization = apiKey
        /\ q.contentType = <<"application/json">>
        /\ q.body[1] = "{\"source\":" /\ q.body[Len(q.body)] = "}"
        /\ SourceField(q.body) = JsonText(read.contents)
        /\ FilenameField(q.body) = <<"\"", files[requests[k].idx], "\"">>
        /\ ConfigField(q.body) = ConfigJson(linterConfig)

C11_Witness ==
  /\ Len(requests) = 2
  /\ linterConfig = RuleConfig
  /\ reads[1].contents = <<" ", "x", "\n">>
  /\ ConfigField(requests[1].request.body) = ConfigField(requests[2].request.body)
  /\ files[1] # files[2]

\* ---------------------------------------------------------------- C12
\* C12: files are posted one at a time, in list order and without retry:
\* request positions strictly increase, at most one request is without
\* its outcome, a file is read only when every earlier position was
\* skipped or had its response taken in, and a run that returns has sent
\* exactly one request for every file read with non-blank contents.
RequestsFor(i) == Cardinality({k \in 1..Len(requests) : requests[k].idx = i})

RepliesFor(i) == Cardinality({k \in 1..Len(replies) : replies[k].idx = i})

C12_SequentialNoRetry ==
  /\ \A k \in 1..Len(requests) :
       \A j \in 1..(k - 1) : requests[j].idx < requests[k].idx
  /\ \A i \in 1..Len(files) : RequestsFor(i) <= 1 /\ RepliesFor(i) <= RequestsFor(i)
  /\ LET outstanding == Len(requests) - Len(replies)
                        - (IF failedStep = "fetch" THEN 1 ELSE 0)
     IN  /\ outstanding \in {0, 1}
         /\ outstanding = 1 <=> pc = "fetch"
  /\ \A k \in 1..Len(reads) :
       \A i \in 1..(reads[k].idx - 1) :
         \/ ~reads[i].threw /\ IsBlank(reads[i].contents)
         \/ \E q \in 1..Len(replies) : replies[q].idx = i /\ Processed(q)
  /\ pc \in {"fetch", "json"} =>
       /\ reads[Len(reads)].idx = idx
       /\ requests[Len(requests)].idx = idx
  /\ pc = "returned" =>
       \A i \in 1..Len(files) :
         RequestsFor(i) = IF IsBlank(reads[i].contents) THEN 0 ELSE 1

C12_Witness ==
  /\ pc = "returned"
  /\ Len(files) = 2
  /\ RequestsFor(1) = 1 /\ RequestsFor(2) = 1
  /\ requests[1].idx = 1 /\ requests[2].idx = 2

\* ---------------------------------------------------------------- C13
\* C13: the closing line of the summary, the debug line and the message of
\* a failed run take the singular form for a count of exactly 1 and the
\* plural form for 0 and for every count of 2 or more.
CountMessage(n, singular) ==
  IF n = 1 THEN <<"Found ", "1", singular>>
           ELSE <<"Found ", ToString(n), singular, "s">>

C13_Pluralization ==
  /\ pc \in {"write", "returned"} =>
       /\ summary[Len(summary)].op = "write"
       /\ summary[Len(summary) - 1].op = "addRaw"
       /\ summary[Len(summary) - 1].text =
            CountMessage(totalErrors, " accessibility issue")
  /\ pc = "returned" =>
       /\ debugLog[Len(debugLog)] = CountMessage(returned, " error")
       /\ failedMessage(returned) =
            CountMessage(returned, " accessibility issue")

C13_Witness ==
  /\ pc = "returned"
  /\ returned = 1
  /\ debugLog[Len(debugLog)] = <<"Found ", "1", " error">>

\* ============================================= claims on getChangedFiles
\* Vocabulary of the properties, stated without the operators of the model.

\* The extensions of the allow-list.
AllowList ==
  {"js", "jsx", "tsx", "esm", "html", "htm", "vue", "md", "markdown"}

\* The text after the last dot of a path's last segment, '' when the segment
\* has no dot or ends in one.
Extension(path) ==
  IF /\ Len(path) >= 3
     /\ path[Len(path) - 1] = "."
     /\ path[Len(path) - 2] # "/"
    THEN path[Len(path)]
    ELSE ""

\* toLowerCase on the extensions of the modelled paths.
LowerCase(t) ==
  CASE t = "JS" -> "js"
    [] t = "JSX" -> "jsx"
    [] t = "MD" -> "md"
    [] t = "MaRkDoWn" -> "markdown"
    [] OTHER -> t

HasSupportedExtension(path) == LowerCase(Extension(path)) \in AllowList

\* The filenames of the delivered response, in the order of the response.
DeliveredNames == [k \in 1..Len(gitData.files) |-> gitData.files[k].filename]

ReturnedNames == {changedFiles[k] : k \in 1..Len(changedFiles)}

\* ---------------------------------------------------------------- C14
\* C14: getChangedFiles never returns a file whose status is 'removed', in
\* the pull-request and in the push variant and whatever its extension: every
\* returned name belongs to a delivered file that is not removed; and a file
\* that is added, modified, renamed or changed and has an extension of the
\* allow-list is returned.
C14_RemovedExcluded ==
  gitPc = "done" =>
    /\ \A name \in ReturnedNames :
         \E k \in 1..Len(gitData.files) :
           /\ gitData.files[k].filename = name
           /\ gitData.files[k].status # "removed"
    /\ \A k \in 1..Len(gitData.files) :
         (/\ gitData.files[k].status \in
               {"added", "modified", "renamed", "changed"}
          /\ Extension(gitData.files[k].filename) \in AllowList)
           => gitData.files[k].filename \in ReturnedNames

\* ---------------------------------------------------------------- C15
\* C15: in either variant, every path getChangedFiles returns has an
\* extension of the allow-list; a path with another extension, with no
\* extension or ending in a bare dot is never in the result.
C15_OnlyAllowListed ==
  gitPc = "done" =>
    \A k \in 1..Len(changedFiles) : HasSupportedExtension(changedFiles[k])

\* A response of an unsupported and a supported file, of which only the
\* supported one was returned.
C15_Witness ==
  /\ gitPc = "done"
  /\ Len(gitData.files) = 2
  /\ ~HasSupportedExtension(gitData.files[1].filename)
  /\ changedFiles = <<gitData.files[2].filename>>

\* ---------------------------------------------------------------- C16
\* C16: every delivered file that is not removed and whose extension is in
\* the allow-list, compared case-insensitively and at any directory depth,
\* is in the result.
C16_CaseInsensitiveRetained ==
  gitPc = "done" =>
    \A k \in 1..Len(gitData.files) :
      (/\ gitData.files[k].status # "removed"
       /\ HasSupportedExtension(gitData.files[k].filename))
        => gitData.files[k].filename \in ReturnedNames

\* ---------------------------------------------------------------- C17
\* C17: at most one comparison call is made; once getChangedFiles has called,
\* the call is pulls.listFiles with the pull request's number when the
\* payload has a pull request, and otherwise repos.compareCommits with
\* base = payload.before and head = payload.after.
C17_BranchOnContext ==
  /\ Len(octokitCalls) <= 1
  /\ gitPc \notin {"idle", "start"} =>
       /\ Len(octokitCalls) = 1
       /\ octokitCalls[1].owner = context.repo.owner
       /\ octokitCalls[1].repo = context.repo.repo
       /\ IF context.payload.pull_request.present
            THEN /\ octokitCalls[1].api = "pulls.listFiles"
                 /\ octokitCalls[1].pull_number =
                      context.payload.pull_request.number
            ELSE /\ octokitCalls[1].api = "repos.compareCommits"
                 /\ octokitCalls[1].base = context.payload.before
                 /\ octokitCalls[1].head = context.payload.after

\* A finished invocation whose payload had a pull request and also the
\* before and after commits.
C17_Witness ==
  /\ gitPc = "done"
  /\ context.payload.pull_request.present
  /\ context.payload.before # ""
  /\ Len(octokitCalls) = 1

\* ---------------------------------------------------------------- C18
\* C18: when the response of the push comparison has no files field,
\* getChangedFiles returns the empty sequence and does not fail.
C18_AbsentFilesIsEmpty ==
  (gitData.delivered /\ ~gitData.present) =>
    /\ gitPc = "done"
    /\ changedFiles = << >>
    /\ gitThrown = NoValue

C18_Witness ==
  /\ Len(octokitCalls) = 1
  /\ octokitCalls[1].api = "repos.compareCommits"
  /\ gitData.delivered
  /\ ~gitData.present
  /\ gitPc = "done"

\* ---------------------------------------------------------------- C19
RECURSIVE IsSubsequence(_, _)
\* a can be obtained from b by deleting elements.
IsSubsequence(a, b) ==
  IF Len(a) = 0 THEN TRUE
  ELSE IF Len(b) = 0 THEN FALSE
  ELSE IF Head(a) = Head(b) THEN IsSubsequence(Tail(a), Tail(b))
  ELSE IsSubsequence(a, Tail(b))

\* C19: the returned sequence is a subsequence of the filenames in the order
\* the API delivered them: nothing re-sorted, duplicated or invented.
C19_OrderPreserved ==
  gitPc = "done" => IsSubsequence(changedFiles, DeliveredNames)

\* Two different files were retained.
C19_Witness ==
  /\ gitPc = "done"
  /\ Len(changedFiles) = 2
  /\ changedFiles[1] # changedFiles[2]

\* ---------------------------------------------------------------- C20
\* C20: when the comparison call fails, getChangedFiles fails with the very
\* same value, has made exactly one call, and returns no file list.
C20_FailurePropagates ==
  gitRaised # NoValue =>
    /\ gitPc = "failed"
    /\ gitThrown = gitRaised
    /\ Len(octokitCalls) = 1
    /\ changedFiles = << >>
    /\ ~gitData.delivered

C20_Witness ==
  /\ gitPc = "failed"
  /\ gitRaised = Err("HttpError", <<"Not Found">>)
  /\ octokitCalls[1].api = "pulls.listFiles"

\* ==================================================================== run
\* run.ts holds two revisions of run; revision says which one runs.  run
\* awaits getChangedFiles, whose outcomes are those of SpecGit, and then
\* lintFiles, whose steps are the actions of Next.
Revisions == {1, 2}

RunInputs ==
  { Inputs("test-token", "test-api-key", "https://test-linter.com/"),
    Inputs("test-token", "test-api-key", "https://test-linter.com"),
    Inputs("test-token", "test-api-key", ""),
    Inputs("", "test-api-key", "https://test-linter.com"),
    Inputs("test-token", "", "https://test-linter.com") }

File(text) == [exists |-> TRUE, text |-> text]

ConfigFiles ==
  { NoFile,
    File(""),
    File("rules:\n  test-rule: error\n"),
    File("just text"),
    File("~"),
    File("rules: [unclosed") }

\* A value js-yaml's load returns: its typeof, whether it is truthy, and the
\* mapping it holds when it is one.
Parsed(type, isTruthy, value) ==
  [threw |-> FALSE, type |-> type, truthy |-> isTruthy, value |-> value]

YAMLException ==
  Err("YAMLException",
      <<"unexpected end of the stream within a flow collection">>)

\* load(configFile) on the modelled texts: undefined for an empty document,
\* the mapping, a string, null (whose typeof is 'object'), or a throw.
load(text) ==
  CASE text = "" -> Parsed("undefined", FALSE, NoConfig)
    [] text = "rules:\n  test-rule: error\n" -> Parsed("object", TRUE, RuleConfig)
    [] text = "just text" -> Parsed("string", TRUE, NoConfig)
    [] text = "~" -> Parsed("object", FALSE, NoConfig)
    [] OTHER -> [threw |-> TRUE, type |-> "undefined", truthy |-> FALSE,
                 value |-> NoConfig]

\* What getChangedFiles resolves with, for a few responses of the API.
RunResponses ==
  { << >>,
    <<ChangedFile(<<"test", ".", "css">>, "modified")>>,
    <<ChangedFile(<<"test", ".", "js">>, "modified")>>,
    <<ChangedFile(<<"test", ".", "js">>, "modified"),
      ChangedFile(<<"test", ".", "css">>, "modified"),
      ChangedFile(<<"about", ".", "htm">>, "modified")>> }

GetChangedFilesResults == {filterFiles(l) : l \in RunResponses}

GetChangedFilesFailures == GitFailures \cup {NonErrorObject}

\* core.getInput(name, {required: true}) throws on an input not supplied.
InputRequired(name) ==
  Err("Error", <<"Input required and not supplied: ", name>>)

\* inputs.axeLinterUrl.replace(/\/$/, '') on the modelled URLs.
replaceTrailingSlash(url) ==
  CASE url = "https://test-linter.com/" -> "https://test-linter.com"
    [] OTHER -> url

\* Lines 12-17 and 75-79: revision 1 falls back to the default URL.
axeLinterUrlInput ==
  replaceTrailingSlash(
    IF revision = 1 /\ getInput.axe_linter_url = ""
      THEN "https://axe-linter.deque.com"
      ELSE getInput.axe_linter_url)

\* JSON.stringify of the thrown object that is not an Error.
stringifyObject(error) ==
  <<"{\"type\":\"", error.fields[1], "\",\"details\":\"", error.fields[2],
    "\",\"statusCode\":", error.fields[3], "}">>

\* Lines 52-58 and 122-128: the message run fails with for a caught value.
catchMessage(error) ==
  IF error.instanceOfError THEN error.message
  ELSE IF revision = 1 THEN <<"An unexpected error occurred">>
  ELSE <<"An unexpected error occurred: ">> \o stringifyObject(error)

\* Lines 52-58 and 122-128: the catch block.
Catch(error) ==
  /\ setFailedCalls' = Append(setFailedCalls, catchMessage(error))
  /\ runPc' = "done"

\* Lines 36 and 96-106: what is logged when the configuration did not load.
configDebug(error) ==
  IF revision = 1 THEN <<"No axe-linter.yml found or empty config">>
  ELSE IF error.instanceOfError
    THEN <<"Error loading axe-linter.yml no config found or invalid config: ">>
           \o error.message
    ELSE <<"Error loading axe-linter.yml no config found or invalid config: ",
           "[object Object]">>

\* Lines 49 and 119: the message of a run that found issues.
foundMessage(errorCount) ==
  IF revision = 1
    THEN <<"Found ", ToString(errorCount), " accessibility issue">>
           \o (IF errorCount = 1 THEN << >> ELSE <<"s">>)
    ELSE failedMessage(errorCount)

RunInit ==
  /\ LintIdle
  /\ GitIdle
  /\ debugLog = << >>
  /\ revision \in Revisions
  /\ getInput \in RunInputs
  \* with an empty URL every fetch of revision 2 fails on the URL itself
  /\ revision = 2 => getInput.axe_linter_url # ""
  /\ configFile \in ConfigFiles
  /\ runPc = "start"
  /\ getChangedFilesCalls = << >>
  /\ configReads = 0
  /\ lintCalls = << >>
  /\ infoLog = << >>
  /\ setFailedCalls = << >>

lintIdleVars ==
  <<idx, fileContents, response, totalErrors, fileErrors, reads, requests,
    replies, annotations, summary, returned, thrown, raised, failedAt,
    failedStep>>

\* Lines 9-11 and 72-74: a required input is missing, getInput throws and
\* the catch block marks the run failed.
InputMissing ==
  /\ runPc = "start"
  /\ \/ /\ getInput.github_token = ""
        /\ Catch(InputRequired("github_token"))
     \/ /\ getInput.github_token # ""
        /\ getInput.api_key = ""
        /\ Catch(InputRequired("api_key"))
  /\ UNCHANGED <<revision, getInput, configFile, getChangedFilesCalls,
                 configReads, lintCalls, infoLog, lint, debugLog, git>>

\* Lines 9-20 and 72-81: the inputs are read and getChangedFiles is called.
CallGetChangedFiles ==
  /\ runPc = "start"
  /\ getInput.github_token # ""
  /\ getInput.api_key # ""
  /\ getChangedFilesCalls' =
       Append(getChangedFilesCalls, getInput.github_token)
  /\ runPc' = "getChangedFiles"
  /\ UNCHANGED <<revision, getInput, configFile, configReads, lintCalls,
                 infoLog, setFailedCalls, lint, debugLog, git>>

\* Lines 20-25 and 81-86: getChangedFiles resolves; an empty list ends the
\* run after 'No files to lint', logged by core.info in revision 1 and by
\* core.debug in revision 2.
GetChangedFilesResolves ==
  /\ runPc = "getChangedFiles"
  /\ \E result \in GetChangedFilesResults :
       /\ changedFiles' = result
       /\ IF Len(result) = 0
            THEN /\ runPc' = "done"
                 /\ IF revision = 1
                      THEN /\ infoLog' = Append(infoLog, <<"No files to lint">>)
                           /\ UNCHANGED debugLog
                      ELSE /\ debugLog' =
                                Append(debugLog, <<"No files to lint">>)
                           /\ UNCHANGED infoLog
            ELSE /\ runPc' = "loadConfig"
                 /\ UNCHANGED <<infoLog, debugLog>>
  /\ UNCHANGED <<revision, getInput, configFile, getChangedFilesCalls,
                 configReads, lintCalls, setFailedCalls, lint, context, gitPc,
                 octokitCalls, gitData, gitThrown, gitRaised>>

\* Lines 20, 52-58 and 81, 122-128: getChangedFiles rejects.
GetChangedFilesRejects ==
  /\ runPc = "getChangedFiles"
  /\ \E e \in GetChangedFilesFailures :
       /\ gitThrown' = e
       /\ Catch(e)
  /\ UNCHANGED <<revision, getInput, configFile, getChangedFilesCalls,
                 configReads, lintCalls, infoLog, lint, debugLog, context,
                 gitPc, octokitCalls, gitData, changedFiles, gitRaised>>

\* Lines 40-45 and 110-115: lintFiles is called with the changed files, the
\* API key, the URL and the configuration.
CallLintFiles(config) ==
  /\ lintCalls' =
       Append(lintCalls,
              [files |-> changedFiles, apiKey |-> getInput.api_key,
               axeLinterUrl |-> axeLinterUrlInput, linterConfig |-> config])
  /\ files' = changedFiles
  /\ apiKey' = getInput.api_key
  /\ axeLinterUrl' = axeLinterUrlInput
  /\ linterConfig' = config
  /\ allowWarnings' = FALSE
  /\ pc' = "loop"
  /\ runPc' = "lintFiles"
  /\ UNCHANGED lintIdleVars

\* A configuration that failed to load ends the run.
LoadConfigUncaught ==
  /\ runPc = "loadConfig"
  /\ configReads' = configReads + 1
  /\ IF ~configFile.exists
       THEN \E e \in ReadFailures :
              /\ Catch(e)
              /\ UNCHANGED <<lintCalls, lint, debugLog>>
       ELSE LET parsedConfig == load(configFile.text)
            IN  IF parsedConfig.threw
                  THEN /\ Catch(YAMLException)
                       /\ UNCHANGED <<lintCalls, lint, debugLog>>
                  ELSE /\ CallLintFiles(
                            IF parsedConfig.truthy
                               /\ parsedConfig.type = "object"
                              THEN parsedConfig.value
                              ELSE NoConfig)
                       /\ UNCHANGED <<debugLog, setFailedCalls>>
  /\ UNCHANGED <<revision, getInput, configFile, getChangedFilesCalls,
                 infoLog, git>>

\* Lines 27-45 and 88-115: axe-linter.yml is read and parsed; a failure is
\* logged by core.debug; the parsed value is the configuration when it is
\* truthy and its typeof is 'object', and {} otherwise.  Then lintFiles is
\* called.
LoadConfig ==
  /\ runPc = "loadConfig"
  /\ configReads' = configReads + 1
  /\ IF ~configFile.exists
       THEN \E e \in ReadFailures :
              /\ debugLog' = Append(debugLog, configDebug(e))
              /\ CallLintFiles(NoConfig)
       ELSE LET parsedConfig == load(configFile.text)
            IN  IF parsedConfig.threw
                  THEN /\ debugLog' =
                            Append(debugLog, configDebug(YAMLException))
                       /\ CallLintFiles(NoConfig)
                  ELSE /\ CallLintFiles(
                            IF parsedConfig.truthy
                               /\ parsedConfig.type = "object"
                              THEN parsedConfig.value
                              ELSE NoConfig)
                       /\ UNCHANGED debugLog
  /\ UNCHANGED <<revision, getInput, configFile, getChangedFilesCalls,
                 infoLog, setFailedCalls, git>>

\* The run is marked failed only for more than one issue.
LintFilesReturnsAboveOne ==
  /\ runPc = "lintFiles"
  /\ pc = "returned"
  /\ IF returned > 1
       THEN setFailedCalls' = Append(setFailedCalls, foundMessage(returned))
       ELSE UNCHANGED setFailedCalls
  /\ runPc' = "done"
  /\ UNCHANGED <<revision, getInput, configFile, getChangedFilesCalls,
                 configReads, lintCalls, infoLog, lint, debugLog, git>>

\* Lines 40-51 and 110-121: lintFiles returned its count.
LintFilesReturns ==
  /\ runPc = "lintFiles"
  /\ pc = "returned"
  /\ IF returned > 0
       THEN setFailedCalls' = Append(setFailedCalls, foundMessage(returned))
       ELSE UNCHANGED setFailedCalls
  /\ runPc' = "done"
  /\ UNCHANGED <<revision, getInput, configFile, getChangedFilesCalls,
                 configReads, lintCalls, infoLog, lint, debugLog, git>>

\* Lines 40, 52-58 and 110, 122-128: lintFiles rejected.
LintFilesThrows ==
  /\ runPc = "lintFiles"
  /\ pc = "failed"
  /\ Catch(thrown)
  /\ UNCHANGED <<revision, getInput, configFile, getChangedFilesCalls,
                 configReads, lintCalls, infoLog, lint, debugLog, git>>

RunNext ==
  \/ InputMissing
  \/ CallGetChangedFiles
  \/ GetChangedFilesResolves
  \/ GetChangedFilesRejects
  \/ LoadConfig
  \/ LintFilesReturns
  \/ LintFilesThrows
  \/ Next

SpecRun == RunInit /\ [][RunNext]_vars

\* ========================================================= claims on run
\* The message the claims expect for a caught value.
ExpectedFailure(error) ==
  IF error.instanceOfError THEN error.message
                           ELSE <<"An unexpected error occurred">>

\* A required input was not supplied.
MissingInput == getInput.github_token = "" \/ getInput.api_key = ""

\* getChangedFiles resolved, and with the empty list.
ResolvedEmpty ==
  /\ runPc \in {"loadConfig", "lintFiles", "done"}
  /\ Len(getChangedFilesCalls) = 1
  /\ gitThrown = NoValue
  /\ changedFiles = << >>

\* ---------------------------------------------------------------- C21
\* C21: once lintFiles has returned n and run has finished, the run is
\* marked failed, once and with 'Found <n> accessibility issue(s)', when
\* n > 0, and is not marked failed when n = 0; and no run is marked failed
\* with a 'Found ...' message unless lintFiles returned a count above 0.
C21_FailedIffIssues ==
  /\ (runPc = "done" /\ pc = "returned") =>
       IF returned > 0
         THEN setFailedCalls =
                <<CountMessage(returned, " accessibility issue")>>
         ELSE setFailedCalls = << >>
  /\ \A k \in 1..Len(setFailedCalls) :
       (Len(setFailedCalls[k]) > 0 /\ setFailedCalls[k][1] = "Found ")
         => (pc = "returned" /\ returned > 0)

\* lintFiles returned exactly one issue and run has finished.
C21_Witness ==
  /\ runPc = "done"
  /\ pc = "returned"
  /\ returned = 1
  /\ Len(setFailedCalls) = 1

\* ---------------------------------------------------------------- C22
\* C22: whatever fails while run executes (a required input missing, the
\* resolver, lintFiles), the run is marked failed exactly once, with the
\* error's message for an Error and with 'An unexpected error occurred'
\* otherwise; and lintFiles is not called after a resolver failure.
C22_FailuresCaught ==
  /\ Len(setFailedCalls) <= 1
  /\ gitThrown # NoValue => lintCalls = << >>
  /\ runPc = "done" =>
       /\ MissingInput =>
            /\ Len(setFailedCalls) = 1
            /\ setFailedCalls[1][1] = "Input required and not supplied: "
       /\ gitThrown # NoValue =>
            setFailedCalls = <<ExpectedFailure(gitThrown)>>
       /\ pc = "failed" => setFailedCalls = <<ExpectedFailure(thrown)>>

\* ---------------------------------------------------------------- C23
\* The configuration the claim expects for the file on disk: the mapping of a
\* file that holds one, the empty mapping for every other file.
ExpectedConfig ==
  IF configFile.exists /\ configFile.text = "rules:\n  test-rule: error\n"
    THEN <<[rule |-> "test-rule", setting |-> "error"]>>
    ELSE << >>

\* C23: once axe-linter.yml has been read (or has failed to be), lintFiles
\* has been called once, with the file's mapping when the file holds one and
\* with the empty mapping when it is missing, empty, unparseable or holds
\* another value; and the run is marked failed only for what lintFiles
\* returned or threw.
C23_ConfigNeverFatal ==
  /\ configReads <= 1
  /\ configReads = 1 =>
       /\ Len(lintCalls) = 1
       /\ lintCalls[1].linterConfig = ExpectedConfig
       /\ linterConfig = ExpectedConfig
       /\ runPc \in {"lintFiles", "done"}
       /\ setFailedCalls # << >> =>
            \/ pc = "failed"
            \/ pc = "returned" /\ returned > 0

\* The file did not parse, and the run finished without being marked
\* failed.
C23_Witness ==
  /\ configFile = File("rules: [unclosed")
  /\ runPc = "done"
  /\ Len(lintCalls) = 1
  /\ setFailedCalls = << >>

\* ---------------------------------------------------------------- C24
\* C24: when getChangedFiles resolves with the empty list, run logs
\* 'No files to lint' with core.info and stops: lintFiles is not called,
\* axe-linter.yml is not read, no request is sent and the run is not marked
\* failed.
C24_NoFilesStops ==
  ResolvedEmpty =>
    /\ runPc = "done"
    /\ infoLog = <<<<"No files to lint">>>>
    /\ lintCalls = << >>
    /\ configReads = 0
    /\ requests = << >>
    /\ setFailedCalls = << >>

\* ================================== claims on the summary of lintFiles
\* The entries of the per-file map that hold at least one finding.
HasFindings(entry) == Len(entry.errors) > 0

FilesWithFindings == SelectSeq(fileErrors, HasFindings)

IsTopHeading(o) ==
  o.op = "addHeading" /\ o.text = <<"Accessibility Linting Results">>

IsSectionHeading(o) == o.op = "addHeading" /\ ~IsTopHeading(o)

IsList(o) == o.op = "addList"

IsWrite(o) == o.op = "write"

\* The sub-heading and the list entries the claim words for one file.
ExpectedHeading(entry) ==
  IF Len(entry.errors) = 1 THEN <<"Error in ", entry.file, ":">>
                           ELSE <<"Errors in ", entry.file, ":">>

ExpectedItems(entry) ==
  [k \in 1..Len(entry.errors) |->
     <<"Line ", ToString(entry.errors[k].line), ": ", entry.errors[k].ruleId,
       " - ", entry.errors[k].description>>]

\* ---------------------------------------------------------------- C25
\* C25: the built summary has one section per file with at least one
\* finding and none for the other files; the k-th section's sub-heading
\* reads 'Error in <file>:' for exactly one finding and 'Errors in <file>:'
\* for more, and its list has one entry 'Line <n>: <ruleId> - <description>'
\* per finding, in the order of the report.
C25_SummarySections ==
  pc \in {"write", "returned"} =>
    LET headings == SelectSeq(summary, IsSectionHeading)
        lists == SelectSeq(summary, IsList)
    IN  /\ Len(headings) = Len(FilesWithFindings)
        /\ Len(lists) = Len(FilesWithFindings)
        /\ \A k \in 1..Len(FilesWithFindings) :
             /\ headings[k].text = ExpectedHeading(FilesWithFindings[k])
             /\ lists[k].items = ExpectedItems(FilesWithFindings[k])

\* ---------------------------------------------------------------- C26
\* C26: no annotation is emitted and no summary call is made before every
\* file has been read and every response has been taken in; a summary that
\* has been started begins with the top-level heading and has exactly one
\* write, as its last call; the summary is built also with zero findings;
\* and the total is returned only after the write has completed.
C26_OutputAfterInput ==
  /\ (annotations # << >> \/ summary # << >>) =>
       /\ idx > Len(files)
       /\ Len(reads) = Len(files)
       /\ Len(replies) = Len(requests)
       /\ pc \notin {"loop", "fetch", "json"}
  /\ summary # << >> =>
       /\ IsTopHeading(summary[1])
       /\ IsWrite(summary[Len(summary)])
       /\ CountIn(summary, IsWrite) = 1
  /\ pc \in {"write", "returned"} => summary # << >>
  /\ returned # -1 =>
       /\ pc = "returned"
       /\ summary # << >>
       /\ returned = totalErrors

\* A run that posted a file, found nothing and returned.
C26_Witness ==
  /\ pc = "returned"
  /\ returned = 0
  /\ Len(requests) >= 1
  /\ annotations = << >>
  /\ summary # << >>

\* ---------------------------------------------------------------- C27
\* C27: when lintFiles has failed on a file, no annotation has been
\* emitted, no summary call has been made (so nothing was written) and no
\* count has been returned, whatever the files before it had reported.
C27_FailureDiscards ==
  (pc = "failed" /\ failedStep # "write") =>
    /\ annotations = << >>
    /\ summary = << >>
    /\ returned = -1

\* The second file failed after the first had reported findings.
C27_Witness ==
  /\ pc = "failed"
  /\ failedAt = 2
  /\ totalErrors > 0
  /\ fileErrors # << >>
  /\ annotations = << >>

\* ---------------------------------------------------------------- C28
\* Sum of the lengths of the error sequences stored in the per-file map.
RECURSIVE SumStored(_)
SumStored(map) ==
  IF Len(map) = 0 THEN 0
  ELSE Len(Head(map).errors) + SumStored(Tail(map))

\* Sum of the lengths of the lists of the summary.
RECURSIVE SumListed(_)
SumListed(ops) ==
  IF Len(ops) = 0 THEN 0
  ELSE Len(Head(ops).items) + SumListed(Tail(ops))

\* C28: between files and at the end, for every input list, lists that name
\* a path twice included, the running total equals the sum of the lengths of
\* the error sequences in the per-file map; so the annotations and the
\* summary list entries are as many as the returned total.
C28_TotalMatchesMap ==
  /\ pc \in {"loop", "write", "returned"} =>
       totalErrors = SumStored(fileErrors)
  /\ pc = "returned" =>
       /\ Len(annotations) = returned
       /\ SumListed(summary) = returned

\* ---------------------------------------------------------------- C29
\* C29: getChangedFiles asks for 100 entries per page and returns every
\* file that is not removed and has an extension of the allow-list,
\* whichever page of the change set it is on.
C29_AllPagesConsidered ==
  gitPc = "done" =>
    /\ \A c \in 1..Len(octokitCalls) : octokitCalls[c].per_page = "100"
    /\ LET changeSet == gitData.files \o gitData.next
       IN  \A k \in 1..Len(changeSet) :
             (/\ changeSet[k].status # "removed"
              /\ Extension(changeSet[k].filename) \in AllowList)
               => changeSet[k].filename \in ReturnedNames

\* ---------------------------------------------------------------- C30
\* No list element is read twice or posted twice.
AtMostOncePerFile ==
  /\ Len(reads) <= Len(files)
  /\ Len(requests) <= Len(files)
  /\ \A i, j \in 1..Len(reads) : reads[i].idx = reads[j].idx => i = j
  /\ \A i, j \in 1..Len(requests) :
       requests[i].idx = requests[j].idx => i = j

\* lintFiles leaves a pending request only by that request's settling.
LeavesFetchBySettling ==
  (pc = "fetch" /\ pc' # "fetch") =>
    (Len(replies') = Len(replies) + 1 \/ raised' # NoValue)

\* C30: when every read and every request returns or fails, lintFiles
\* eventually returns a count or fails, having read and posted each list
\* element at most once; while a request is pending it has neither returned
\* nor failed, and only the request's settling ends the wait.
C30_Terminates ==
  /\ [](AtMostOncePerFile)
  /\ [](pc = "fetch" => (returned = -1 /\ thrown = NoValue))
  /\ [][LeavesFetchBySettling]_vars
  /\ <>(pc \in {"returned", "failed"})

\* Every file of a list of two was read and posted, and the count returned.
C30_Witness ==
  /\ pc = "returned"
  /\ Len(files) = 2
  /\ Len(reads) = 2
  /\ Len(requests) = 2

============================================================================
